---- MODULE Spec2Model ----
(***************************************************************************)
(* Model of the literature-review agent: the LangGraph workflow of         *)
(* src/main.py (build_graph, main) and the eight node functions of         *)
(* src/graph/nodes.  The external collaborators (LLM, DuckDuckGo, HTTP,    *)
(* embeddings) are nondeterministic choices over their possible outcomes.  *)
(*                                                                         *)
(* Text is modelled as a sequence of tokens (each token a piece of the     *)
(* string), so that prefixes and substrings are decided on the text and    *)
(* an f-string is the concatenation of its pieces.  Python's None is the   *)
(* empty tuple and a present optional value v is <<v>>.                    *)
(***************************************************************************)
EXTENDS Integers, Sequences, FiniteSets, TLC

VARIABLES
    OPENAI_API_KEY,     \* os.getenv("OPENAI_API_KEY") is set
    pc,                 \* position of the process: "main", a node name, "END", "exit"
    topic,
    subtopics,
    documents,
    chunks,
    summaries,
    final_review,
    vector_store,
    _search_results,
    _retrieved_chunks,
    _quality_passed,
    _retry_count,
    runs,               \* history: how often each node has executed (saturating)
    last_route,         \* history: the last value returned by should_retry_search
    all_failed,         \* history: every external call of the run so far has failed
    failed_calls,       \* history: the external calls of the last node that failed
    fn_in,              \* argument of the pure function under test
    fn_out,             \* its result
    cache_files,        \* .cache: path -> None or the file's data and mtime
    now,                \* the clock, in hours
    last_put,           \* history: per path, the last put since the last clear
    cache_out           \* the last call of a cache function and its outcome

state == <<topic, subtopics, documents, chunks, summaries, final_review,
           vector_store, _search_results, _retrieved_chunks,
           _quality_passed, _retry_count>>
hist == <<runs, last_route, all_failed, failed_calls>>
cache == <<cache_files, now, last_put, cache_out>>
fn == <<fn_in, fn_out, cache>>
vars == <<OPENAI_API_KEY, pc, state, hist, fn>>

----------------------------------------------------------------------------
(* Bounds *)

MaxFaultPos == 1    \* a deviating external call is one of the first MaxFaultPos
MaxRuns == 3        \* the execution counters saturate here
MaxDocs == 12       \* quality gate under test: number of documents
MaxSubs == 12       \* quality gate under test: number of subtopics
MaxRetry == 3       \* routing function under test: retry_count
MaxTicks == 3       \* the clock stops after MaxTicks steps of twelve hours

----------------------------------------------------------------------------
(* Python values *)

None == <<>>
Some(v) == <<v>>
Truthy(opt) == opt # None /\ opt[1] # FALSE

Min(a, b) == IF a <= b THEN a ELSE b
Max(a, b) == IF a >= b THEN a ELSE b

\* s[:n]
Take(s, n) == SubSeq(s, 1, Min(n, Len(s)))

\* s.startswith(p) on token text
startswith(s, p) == Len(p) <= Len(s) /\ SubSeq(s, 1, Len(p)) = p

RECURSIVE Concat(_)
Concat(ss) == IF ss = <<>> THEN <<>> ELSE ss[1] \o Concat(Tail(ss))

\* dict[k] = v on an insertion-ordered dict, a sequence of <<key, value>>
DictSet(d, k, v) ==
    IF \E i \in 1..Len(d) : d[i][1] = k
    THEN [i \in 1..Len(d) |-> IF d[i][1] = k THEN <<k, v>> ELSE d[i]]
    ELSE Append(d, <<k, v>>)

DictKeys(d) == {d[i][1] : i \in 1..Len(d)}
DictGet(d, k, default) ==
    IF k \in DictKeys(d)
    THEN d[CHOOSE i \in 1..Len(d) : d[i][1] = k][2]
    ELSE default

----------------------------------------------------------------------------
(* Text *)

Digit == <<"1", "2", "3", "4", "5", "6", "7", "8", "9">>

\* len() of the pieces that URLs and placeholder contents are made of
TokenLen(t) ==
    CASE t = "" -> 0
      [] t \in {"s", "x", "-", "1", "2", "3", "4", "5", "6", "7", "8", "9"} -> 1
      [] t \in {"ftp", "://"} -> 3
      [] t = "http" -> 4
      [] t \in {"a.org/p", "b.org/q", "c.org/r"} -> 7
      [] t \in {"Decoders", "Hardware"} -> 8
      [] t = "Error Models" -> 12
      [] t = "Recent Advances" -> 15
      [] t = "example.com/result" -> 18
      [] t = "example.com/article" -> 19
      [] t = "Foundational Overview" -> 21
      [] t = "Placeholder content for " -> 24
      [] t = "Challenges and Limitations" -> 26
      [] t = ". This would contain actual scraped text in production." -> 55
      [] t = "long.org/ (a path of 9990 characters)" -> 9990

RECURSIVE StrLen(_)
StrLen(s) == IF s = <<>> THEN 0 ELSE TokenLen(s[1]) + StrLen(Tail(s))

\* len() of a content: its text pieces and its page characters
content_len(content) == StrLen(content.text) + content.body

----------------------------------------------------------------------------
(* src/graph/state.py *)

Subtopic(name, search_query, rationale) ==
    [name |-> name, search_query |-> search_query, rationale |-> rationale]

\* content: the text pieces followed by `body` characters of page text
Document(url, title, content, subtopic) ==
    [url |-> url, title |-> title, content |-> content, subtopic |-> subtopic]

Summary(subtopic, summary, key_findings, sources) ==
    [subtopic |-> subtopic, summary |-> summary,
     key_findings |-> key_findings, sources |-> sources]

Nodes == {"planner", "searcher", "fetcher", "quality_check", "chunk_embed",
          "retriever", "summarizer", "synthesizer"}

----------------------------------------------------------------------------
(* The environment: what the external collaborators can answer *)

\* --topic values
Topics == {"Transformer architectures in natural language processing"}

\* Subtopics an LLM may put in its structured answer; nothing in the
\* schema (SubtopicsPlan) forbids an empty string or a repeated name.
SubA == Subtopic("Error Models", <<"error models">>, "r1")
SubB == Subtopic("Decoders", <<"decoders">>, "r2")
SubC == Subtopic("Hardware", <<"hardware">>, "r3")
SubE == Subtopic("", <<>>, "r4")
SubB2 == Subtopic("Decoders", <<"decoder", " benchmarks">>, "r5")

\* answers of structured_llm.invoke in the planner
PlannerAnswers ==
    { <<>>, <<SubA>>, <<SubA, SubB, SubC>>, <<SubA, SubE, SubB, SubB2>> }

PlannerOutcomes ==
    { [kind |-> "error", subtopics |-> <<>>] }
    \cup { [kind |-> "ok", subtopics |-> p] : p \in PlannerAnswers }

\* a Python value found under a key of a search hit
Str(t) == [type |-> "str", text |-> t]
NonStr == [type |-> "int", text |-> <<>>]
PyTruthy(v) == v.type = "int" \/ (v.type = "str" /\ v.text # <<>>)

Hit(href) == [has_href |-> TRUE, href |-> href]
NoHref == [has_href |-> FALSE, href |-> Str(<<>>)]

UrlA == <<"http", "://", "a.org/p">>
UrlB == <<"http", "s", "://", "b.org/q">>
UrlX == <<"http", "x", "://", "c.org/r">>
UrlF == <<"ftp", "://", "a.org/p">>
UrlLong == <<"http", "s", "://", "long.org/ (a path of 9990 characters)">>

\* lists ddgs.text can return: none, more than asked for with hits that are
\* not web links, and one whose link is not a string
ManyHits == << Hit(Str(UrlA)), Hit(Str(UrlF)), NoHref, Hit(Str(UrlX)),
               Hit(Str(<<>>)), Hit(Str(UrlB)), Hit(Str(UrlLong)), Hit(Str(UrlB)),
               Hit(Str(UrlA)), Hit(Str(UrlB)) >>
BadHits == << Hit(Str(UrlA)), Hit(NonStr) >>

DdgsOutcomes ==
    { [kind |-> "ImportError", results |-> <<>>],
      [kind |-> "Exception", results |-> <<>>] }
    \cup { [kind |-> "ok", results |-> r] : r \in {<<>>, ManyHits, BadHits} }

\* what requests.get / BeautifulSoup give for one URL: a page whose
\* extracted text has `body` characters, or an exception
HttpOutcomes ==
    { [kind |-> "error", body |-> 0] }
    \cup { [kind |-> "ok", body |-> n] : n \in {0, 12000} }

\* The calls of one loop all get the answer `base`, except the call number
\* `at` (if any), which gets `fault`.
Scripts(Outcomes) ==
    { [base |-> b, fault |-> b, at |-> 0] : b \in Outcomes }
    \cup { [base |-> b, fault |-> e, at |-> j] :
             b \in Outcomes, e \in Outcomes, j \in 1..MaxFaultPos }

Answer(script, i) == IF i = script.at THEN script.fault ELSE script.base

\* every call of a loop gets the same answer
Uniform(Outcomes) == { [base |-> b, fault |-> b, at |-> 0] : b \in Outcomes }

\* the calls of one loop all get the same answer, or all but the failing
\* call number `at`
FailScripts(Outcomes, failure) ==
    Uniform(Outcomes)
    \cup { [base |-> b, fault |-> failure, at |-> j] :
             b \in Outcomes \ {failure}, j \in 1..MaxFaultPos }

----------------------------------------------------------------------------
(* src/graph/nodes/planner.py *)

\* the template without the interpolation of the topic
planner_fallback_no_topic(t) ==
    << Subtopic("Foundational Overview",
                <<" overview introduction">>,
                "Provides foundational understanding"),
       Subtopic("Recent Advances",
                <<" recent developments 2024">>,
                "Covers latest developments"),
       Subtopic("Challenges and Limitations",
                <<" challenges limitations">>,
                "Identifies open problems") >>

planner_fallback(t) ==
    << Subtopic("Foundational Overview",
                <<t, " overview introduction">>,
                "Provides foundational understanding"),
       Subtopic("Recent Advances",
                <<t, " recent developments 2024">>,
                "Covers latest developments"),
       Subtopic("Challenges and Limitations",
                <<t, " challenges limitations">>,
                "Identifies open problems") >>

\* the try block without its except clause: nothing is stored on a failure
plan_subtopics_uncaught(t, llm) == llm.subtopics

\* the value plan_subtopics stores in state["subtopics"]
plan_subtopics(t, llm) ==
    IF llm.kind = "ok" THEN llm.subtopics ELSE planner_fallback(t)

----------------------------------------------------------------------------
(* src/tools/search_tool.py *)

search_duckduckgo(query, num_results, ddgs) ==
    CASE ddgs.kind = "ok" ->
           [i \in 1..Len(ddgs.results) |->
              [url |-> IF ddgs.results[i].has_href
                       THEN ddgs.results[i].href ELSE Str(<<>>)]]
      [] ddgs.kind = "ImportError" ->
           [i \in 1..num_results |->
              [url |-> Str(<<"http", "s", "://", "example.com/result",
                             Digit[i]>>)]]
      [] OTHER -> <<>>

perform_search(query, backend, num_results, ddgs) ==
    search_duckduckgo(query, num_results, ddgs)

----------------------------------------------------------------------------
(* src/graph/nodes/searcher.py *)

IsTruthyUrl(r) == PyTruthy(r.url)
IsHttp(u) == startswith(u.text, <<"http">>)

searcher_placeholder(name) ==
    [j \in 1..3 |-> <<"http", "s", "://", "example.com/article", Digit[j],
                      "-", name>>]

\* the list stored under one subtopic's name
search_one(subtopic, ddgs) ==
    LET results == perform_search(subtopic.search_query, "duckduckgo", 5, ddgs)
        truthy == SelectSeq(results, IsTruthyUrl)
        urls == [i \in 1..Len(truthy) |-> truthy[i].url]
        \* url.startswith on a value that is not a string raises
        raises == \E i \in 1..Len(urls) : urls[i].type # "str"
        valid == SelectSeq(urls, IsHttp)
        valid_urls == [i \in 1..Len(valid) |-> valid[i].text]
    IN  IF raises THEN searcher_placeholder(subtopic.name)
        ELSE Take(valid_urls, 5)

RECURSIVE search_loop(_, _, _, _)
search_loop(subs, i, script, search_results) ==
    IF i > Len(subs) THEN search_results
    ELSE search_loop(subs, i + 1, script,
                     DictSet(search_results, subs[i].name,
                             search_one(subs[i], Answer(script, i))))

\* a subtopic without a valid URL gets no entry
search_web_skip_empty(subs, script) ==
    LET HasUrls(entry) == entry[2] # <<>>
    IN  SelectSeq(search_loop(subs, 1, script, <<>>), HasUrls)

\* the value search_web stores in state["_search_results"]
search_web(subs, script) == search_loop(subs, 1, script, <<>>)

----------------------------------------------------------------------------
(* src/tools/fetch_tool.py *)

Page(n) == [text |-> <<>>, body |-> n]

\* Optional[str]: every exception is caught inside
fetch_url(url, http) ==
    IF http.kind = "ok" THEN Some(Page(http.body)) ELSE None

----------------------------------------------------------------------------
(* src/graph/nodes/fetcher.py *)

_create_placeholder_doc(url, subtopic) ==
    Document(url,
             <<"Placeholder for ", subtopic>>,
             [text |-> <<"Placeholder content for ">> \o url \o
                       <<". This would contain actual scraped text in production.">>,
              body |-> 0],
             subtopic)

fetch_one(subtopic_name, url, http) ==
    LET content == fetch_url(url, http)
    IN  IF content # None /\ content[1].body > 0
        THEN Document(url,
                      <<"Article about ", subtopic_name>>,
                      Page(Min(content[1].body, 10000)),
                      subtopic_name)
        ELSE _create_placeholder_doc(url, subtopic_name)

\* the (subtopic_name, url) pairs in the order the two loops visit them
RECURSIVE url_items(_)
url_items(search_results) ==
    IF search_results = <<>> THEN <<>>
    ELSE [j \in 1..Len(search_results[1][2]) |->
            <<search_results[1][1], search_results[1][2][j]>>]
         \o url_items(Tail(search_results))

\* the URLs visited last to first
fetch_pages_reversed(search_results, script) ==
    LET items == url_items(search_results)
        n == Len(items)
    IN  [k \in 1..n |->
           fetch_one(items[n + 1 - k][1], items[n + 1 - k][2],
                     Answer(script, k))]

\* a URL whose fetch gives nothing is left out
fetch_pages_omit(search_results, script) ==
    LET items == url_items(search_results)
        Fetched(k) == Answer(script, k).kind = "ok" /\ Answer(script, k).body > 0
        kept == SelectSeq([k \in 1..Len(items) |-> k], Fetched)
    IN  [n \in 1..Len(kept) |->
           fetch_one(items[kept[n]][1], items[kept[n]][2],
                     Answer(script, kept[n]))]

\* the value fetch_pages stores in state["documents"]
fetch_pages(search_results, script) ==
    LET items == url_items(search_results)
    IN  [k \in 1..Len(items) |->
           fetch_one(items[k][1], items[k][2], Answer(script, k))]

----------------------------------------------------------------------------
(* src/graph/nodes/quality_check.py *)

MIN_TOTAL_DOCS == 5

\* docs_per_subtopic >= MIN_DOCS_PER_SUBTOPIC, with
\* docs_per_subtopic = num_documents / max(num_subtopics, 1) and
\* MIN_DOCS_PER_SUBTOPIC = 0.5 = 1/2
docs_per_subtopic_ok(num_documents, num_subtopics) ==
    2 * num_documents >= 1 * Max(num_subtopics, 1)

\* the threshold taken as exclusive
quality_passed_exclusive(num_documents, num_subtopics) ==
    num_documents > MIN_TOTAL_DOCS
    /\ docs_per_subtopic_ok(num_documents, num_subtopics)

quality_passed(num_documents, num_subtopics) ==
    num_documents >= MIN_TOTAL_DOCS
    /\ docs_per_subtopic_ok(num_documents, num_subtopics)

MAX_RETRIES == 1

\* one retry too many
should_retry_search_inclusive(qp, retry_count) ==
    IF ~Truthy(qp) /\ retry_count <= MAX_RETRIES THEN "retry" ELSE "continue"

\* qp is state.get("_quality_passed", True): None, <<TRUE>> or <<FALSE>>
should_retry_search(qp, retry_count) ==
    IF ~Truthy(qp) /\ retry_count < MAX_RETRIES THEN "retry" ELSE "continue"

----------------------------------------------------------------------------
(* src/graph/nodes/chunk_embed.py *)

Metadata(doc) == [url |-> doc.url, title |-> doc.title, subtopic |-> doc.subtopic]

\* RecursiveCharacterTextSplitter(chunk_size=1000, chunk_overlap=200):
\* the number of windows over a text of n characters
windows(n) == IF n <= 1000 THEN 1 ELSE 1 + ((n - 1000) + 799) \div 800

content_windows(content) == windows(content_len(content))

doc_chunks(doc) ==
    [w \in 1..content_windows(doc.content) |->
       [text |-> [of |-> doc.content, window |-> w],
        metadata |-> Metadata(doc)]]

RECURSIVE split_all(_)
split_all(docs) ==
    IF docs = <<>> THEN <<>> ELSE doc_chunks(docs[1]) \o split_all(Tail(docs))

\* doc.content[:1000], one chunk a document
fallback_chunks(docs) ==
    [i \in 1..Len(docs) |->
       [text |-> [of |-> docs[i].content, window |-> 0],
        metadata |-> Metadata(docs[i])]]

EmbedOutcomes == {"ok", "split_error", "embed_error"}

\* without the early return on an empty documents list
chunk_and_embed_no_guard(docs, outcome) ==
    IF outcome = "ok"
    THEN [chunks |-> split_all(docs), vector_store |-> Some(split_all(docs))]
    ELSE [chunks |-> fallback_chunks(docs), vector_store |-> None]

\* the except branch storing the chunks the try block had already split
chunk_and_embed_keeps_split(docs, outcome) ==
    IF docs = <<>> THEN [chunks |-> <<>>, vector_store |-> None]
    ELSE IF outcome = "ok"
         THEN [chunks |-> split_all(docs), vector_store |-> Some(split_all(docs))]
         ELSE [chunks |-> split_all(docs), vector_store |-> None]

\* the pair stored in state["chunks"], state["vector_store"]; a FAISS index
\* is the list of (text, metadata) it was built from
chunk_and_embed(docs, outcome) ==
    IF docs = <<>> THEN [chunks |-> <<>>, vector_store |-> None]
    ELSE IF outcome = "ok"
         THEN [chunks |-> split_all(docs), vector_store |-> Some(split_all(docs))]
         ELSE [chunks |-> fallback_chunks(docs), vector_store |-> None]

----------------------------------------------------------------------------
(* src/graph/nodes/retriever.py *)

\* the list comprehension without the slice
filter_chunks_unsliced(all_chunks, name) ==
    LET Mine(c) == c.metadata.subtopic = name
    IN  SelectSeq(all_chunks, Mine)

\* the first ten chunks, whatever their subtopic
filter_chunks_unfiltered(all_chunks, name) == Take(all_chunks, 10)

\* [chunk for chunk in chunks if chunk["metadata"]["subtopic"] == name][:10]
filter_chunks(all_chunks, name) ==
    LET Mine(c) == c.metadata.subtopic = name
    IN  Take(SelectSeq(all_chunks, Mine), 10)

Reverse(s) == [i \in 1..Len(s) |-> s[Len(s) + 1 - i]]

\* similarity_search(query, k=10): the k entries of the index nearest to the
\* query, here the last ones built, nearest first; or an exception
SearchKinds == {"hits", "error"}

similarity_search(index, k, kind) == Take(Reverse(index), k)

\* the except branch without its fallback
retrieve_one_no_fallback(subtopic, all_chunks, store, kind) ==
    IF store = None THEN filter_chunks(all_chunks, subtopic.name)
    ELSE IF kind # "error" THEN similarity_search(store[1], 10, kind)
         ELSE <<>>

retrieve_one(subtopic, all_chunks, store, kind) ==
    IF store = None THEN filter_chunks(all_chunks, subtopic.name)
    ELSE IF kind # "error" THEN similarity_search(store[1], 10, kind)
         ELSE filter_chunks(all_chunks, subtopic.name)

RECURSIVE retrieve_loop(_, _, _, _, _, _)
retrieve_loop(subs, i, all_chunks, store, script, retrieved_chunks) ==
    IF i > Len(subs) THEN retrieved_chunks
    ELSE retrieve_loop(subs, i + 1, all_chunks, store, script,
                       DictSet(retrieved_chunks, subs[i].name,
                               retrieve_one(subs[i], all_chunks, store,
                                            Answer(script, i))))

\* the value stored in state["_retrieved_chunks"]
retrieve_context(subs, all_chunks, store, script) ==
    retrieve_loop(subs, 1, all_chunks, store, script, <<>>)

----------------------------------------------------------------------------
(* src/graph/nodes/summarizer.py *)

_create_placeholder_summary(subtopic_name, cs) ==
    Summary(subtopic_name,
            <<"Academic summary for ", subtopic_name, ". ", "Based on ",
              ToString(Len(cs)), " retrieved sources.">>,
            <<"Finding 1: Placeholder finding (OpenAI integration needed)",
              "Finding 2: Another placeholder finding">>,
            [i \in 1..Min(3, Len(cs)) |-> cs[i].metadata.url])

\* structured_llm.invoke: a Summary of the LLM's making, whose subtopic field
\* is the LLM's text ("echo": the name asked for), or an exception
SummaryKinds == {"echo", "renamed", "error"}

llm_summary(subtopic_name, kind) ==
    Summary(IF kind = "echo" THEN subtopic_name ELSE "Overview",
            <<"LLM summary">>, <<"LLM finding">>, <<UrlA>>)

summarize_one(subtopic, retrieved_chunks, llm_ready, kind) ==
    LET cs == DictGet(retrieved_chunks, subtopic.name, <<>>)
    IN  IF llm_ready /\ kind # "error"
        THEN llm_summary(subtopic.name, kind)
        ELSE _create_placeholder_summary(subtopic.name, cs)

\* the value stored in state["summaries"]
summarize_subtopics(subs, retrieved_chunks, llm_ready, script) ==
    [i \in 1..Len(subs) |->
       summarize_one(subs[i], retrieved_chunks, llm_ready, Answer(script, i))]

----------------------------------------------------------------------------
(* src/graph/nodes/synthesizer.py *)

findings_text(key_findings) ==
    Concat([i \in 1..Len(key_findings) |-> <<"- ", key_findings[i], "\n">>])

summary_section(summary) ==
    <<"### ", summary.subtopic, "\n\n">> \o summary.summary
    \o <<"\n\n", "**Key Findings:**\n">> \o findings_text(summary.key_findings)
    \o <<"\n">>

_create_placeholder_review(t, sums) ==
    <<"# Literature Review: ", t,
      "\n\n## Introduction\nThis literature review synthesizes research on ",
      t, ".\n\n## Key Themes\n\n">>
    \o Concat([i \in 1..Len(sums) |-> summary_section(sums[i])])
    \o <<"\n## Research Gaps\n[Placeholder: OpenAI integration needed to identify gaps]\n\n## Conclusion\n[Placeholder: OpenAI integration needed for synthesis]\n">>

\* llm.invoke(prompt).content, or an exception
ReviewOutcomes ==
    { [kind |-> "error", content |-> <<>>] }
    \cup { [kind |-> "ok", content |-> <<"LLM review">>] }

\* the except branch without its fallback
synthesize_review_no_fallback(t, sums, llm) ==
    IF llm.kind = "ok" THEN Some(llm.content) ELSE None

\* the value stored in state["final_review"]
synthesize_review(t, sums, llm) ==
    IF llm.kind = "ok" THEN Some(llm.content)
    ELSE Some(_create_placeholder_review(t, sums))

----------------------------------------------------------------------------
(* src/main.py: build_graph *)

\* workflow.add_edge(a, b) and the edge to END
edge(node) ==
    CASE node = "planner" -> "searcher"
      [] node = "searcher" -> "fetcher"
      [] node = "fetcher" -> "quality_check"
      [] node = "chunk_embed" -> "retriever"
      [] node = "retriever" -> "summarizer"
      [] node = "summarizer" -> "synthesizer"
      [] node = "synthesizer" -> "END"

\* the retry branch wired to the entry point
conditional_edges_to_planner(route) ==
    IF route = "retry" THEN "planner" ELSE "chunk_embed"

\* the mapping of add_conditional_edges("quality_check", should_retry_search, ...)
conditional_edges(route) ==
    IF route = "retry" THEN "searcher" ELSE "chunk_embed"

ran(node) == [runs EXCEPT ![node] = Min(@ + 1, MaxRuns)]

----------------------------------------------------------------------------
(* src/cache.py *)

CACHE_EXPIRY_HOURS == 24

\* cache_type: the sub-directory of .cache
Namespaces == {"search", "embeddings"}
CacheKeys == {"quantum error correction"}
\* what callers store: result lists under search, vectors under embeddings
CacheValues(cache_type) ==
    IF cache_type = "search" THEN {"results 1", "results 2"}
    ELSE {"vectors 1", "vectors 2"}

\* hashlib.md5(key.encode()).hexdigest()
md5(key) ==
    CASE key = "quantum error correction" -> "d8ee6cfdb21ef20752a9d5ad0c5df8b4"
      [] key = "q" -> "7694f4a66316e53c8cdd9d9954bd611d"

\* cache_subdir / f"{key_hash}.pkl"
_get_cache_path(cache_type, key) == <<cache_type, md5(key)>>

CachePaths == { _get_cache_path(t, k) : t \in Namespaces, k \in CacheKeys }

\* a file: what pickle.load reads from it ("corrupt": a truncated pickle)
\* and its st_mtime
CacheFile(data, mtime) == [data |-> data, mtime |-> mtime]

\* file_time >= expiry_time
_is_cache_valid_inclusive(files, cache_path, t) ==
    /\ files[cache_path] # None
    /\ files[cache_path][1].mtime >= t - CACHE_EXPIRY_HOURS

\* cache_path.exists() and file_time > now - timedelta(hours=24)
_is_cache_valid(files, cache_path, t) ==
    /\ files[cache_path] # None
    /\ files[cache_path][1].mtime > t - CACHE_EXPIRY_HOURS

\* the outcomes of the file-system calls of one cache call: the two mkdir
\* of _get_cache_path, then open() and pickle
MkdirOutcomes == {"ok", "error"}
IoOutcomes == {"ok", "open_error", "pickle_error"}

Outcome(op, cache_type, key, kind, value, io) ==
    [op |-> op, cache_type |-> cache_type, key |-> key, kind |-> kind,
     value |-> value, io |-> io]
NoCall == Outcome("none", "", "", "none", "", "ok")

\* get_cached_search / get_cached_embeddings: "hit" with the value, "miss"
\* for None, "raised" for an exception that leaves the function
get_cached(files, t, cache_type, key, mkdir, io) ==
    LET cache_path == _get_cache_path(cache_type, key)
    IN  IF mkdir = "error"
        THEN Outcome("get", cache_type, key, "raised", "", io)
        ELSE IF _is_cache_valid(files, cache_path, t)
             THEN IF io = "ok" /\ files[cache_path][1].data # "corrupt"
                  THEN Outcome("get", cache_type, key, "hit",
                               files[cache_path][1].data, io)
                  ELSE Outcome("get", cache_type, key, "miss", "", io)
             ELSE Outcome("get", cache_type, key, "miss", "", "ok")

\* cache_search_results / cache_embeddings: the files afterwards.
\* open(path, 'wb') truncates the file before pickle.dump writes
put_files(files, t, cache_type, key, value, mkdir, io) ==
    LET cache_path == _get_cache_path(cache_type, key)
    IN  IF mkdir = "error" \/ io = "open_error" THEN files
        ELSE IF io = "ok"
             THEN [files EXCEPT ![cache_path] = Some(CacheFile(value, t))]
             ELSE [files EXCEPT ![cache_path] = Some(CacheFile("corrupt", t))]

put_outcome(cache_type, key, value, mkdir, io) ==
    IF mkdir = "error" THEN Outcome("put", cache_type, key, "raised", value, io)
    ELSE Outcome("put", cache_type, key,
                 IF io = "ok" THEN "stored" ELSE "warned", value, io)

\* clear_cache(cache_type): None clears every sub-directory
ClearArgs == {None} \cup { Some(t) : t \in Namespaces }
clear_cache(files, arg) ==
    [p \in DOMAIN files |->
       IF arg = None \/ arg[1] = p[1] THEN None ELSE files[p]]

PutRecord(st, value, time) == [state |-> st, value |-> value, time |-> time]
NeverPut == PutRecord("none", "", 0)

InitCache ==
    /\ cache_files = [p \in CachePaths |-> None]
    /\ now = 0
    /\ last_put = [p \in CachePaths |-> NeverPut]
    /\ cache_out = NoCall

----------------------------------------------------------------------------
(* The process *)

NoTest == [num_documents |-> 0, num_subtopics |-> 0,
           quality_passed |-> TRUE, retry_count |-> 0]
NoResult == [quality_passed |-> None, route |-> "none"]

\* main() up to initial_state: the arguments are parsed, the state is built
Init ==
    /\ OPENAI_API_KEY \in BOOLEAN
    /\ pc = "main"
    /\ topic \in Topics
    /\ subtopics = <<>>
    /\ documents = <<>>
    /\ chunks = <<>>
    /\ summaries = <<>>
    /\ final_review = None
    /\ vector_store = None
    /\ _search_results = None
    /\ _retrieved_chunks = None
    /\ _quality_passed = None
    /\ _retry_count = 0
    /\ runs = [n \in Nodes |-> 0]
    /\ last_route = "none"
    /\ all_failed = TRUE
    /\ failed_calls = {}
    /\ fn_in = NoTest
    /\ fn_out = NoResult
    /\ InitCache

\* main() without the check of the key
Main_unchecked ==
    /\ pc = "main"
    /\ pc' = "planner"
    /\ UNCHANGED <<OPENAI_API_KEY, state, hist, fn>>

\* main(): stop without the key, else graph.invoke(initial_state)
Main ==
    /\ pc = "main"
    /\ pc' = IF OPENAI_API_KEY THEN "planner" ELSE "exit"
    /\ UNCHANGED <<OPENAI_API_KEY, state, hist, fn>>

Planner ==
    /\ pc = "planner"
    /\ \E llm \in PlannerOutcomes :
         /\ subtopics' = plan_subtopics(topic, llm)
         /\ all_failed' = (all_failed /\ llm.kind = "error")
         /\ failed_calls' = IF llm.kind = "error" THEN {1} ELSE {}
    /\ pc' = edge("planner")
    /\ runs' = ran("planner")
    /\ UNCHANGED <<OPENAI_API_KEY, topic, documents, chunks, summaries,
                   final_review, vector_store, _search_results,
                   _retrieved_chunks, _quality_passed, _retry_count,
                   last_route, fn>>

\* a Searcher that also clears the documents of the pass before
Searcher_clearing ==
    /\ pc = "searcher"
    /\ \E script \in Scripts(DdgsOutcomes) :
         /\ _search_results' = Some(search_web(subtopics, script))
         /\ all_failed' = (all_failed /\ \A i \in 1..Len(subtopics) :
                                           Answer(script, i).kind = "Exception")
         /\ failed_calls' = { i \in 1..Len(subtopics) :
                                Answer(script, i).kind # "ok" }
    /\ documents' = <<>>
    /\ pc' = edge("searcher")
    /\ runs' = ran("searcher")
    /\ UNCHANGED <<OPENAI_API_KEY, topic, subtopics, chunks,
                   summaries, final_review, vector_store, _retrieved_chunks,
                   _quality_passed, _retry_count, last_route, fn>>

Searcher ==
    /\ pc = "searcher"
    /\ \E script \in Scripts(DdgsOutcomes) :
         /\ _search_results' = Some(search_web(subtopics, script))
         /\ all_failed' = (all_failed /\ \A i \in 1..Len(subtopics) :
                                           Answer(script, i).kind = "Exception")
         /\ failed_calls' = { i \in 1..Len(subtopics) :
                                Answer(script, i).kind # "ok" }
    /\ pc' = edge("searcher")
    /\ runs' = ran("searcher")
    /\ UNCHANGED <<OPENAI_API_KEY, topic, subtopics, documents, chunks,
                   summaries, final_review, vector_store, _retrieved_chunks,
                   _quality_passed, _retry_count, last_route, fn>>

Fetcher ==
    /\ pc = "fetcher"
    /\ \E script \in Scripts(HttpOutcomes) :
         /\ documents' = fetch_pages(_search_results[1], script)
         /\ all_failed' = (all_failed /\ \A k \in 1..Len(documents') :
                                           Answer(script, k).kind = "error")
         /\ failed_calls' = { k \in 1..Len(documents') :
                                Answer(script, k).kind = "error" }
    /\ pc' = edge("fetcher")
    /\ runs' = ran("fetcher")
    /\ UNCHANGED <<OPENAI_API_KEY, topic, subtopics, chunks, summaries,
                   final_review, vector_store, _search_results,
                   _retrieved_chunks, _quality_passed, _retry_count,
                   last_route, fn>>

\* a gate that keeps the verdict of the pass before
QualityGate_stale ==
    /\ pc = "quality_check"
    /\ _quality_passed' =
         IF _quality_passed = None
         THEN Some(quality_passed(Len(documents), Len(subtopics)))
         ELSE _quality_passed
    /\ pc' = "should_retry_search"
    /\ runs' = ran("quality_check")
    /\ failed_calls' = {}
    /\ UNCHANGED <<OPENAI_API_KEY, topic, subtopics, documents, chunks,
                   summaries, final_review, vector_store, _search_results,
                   _retrieved_chunks, _retry_count, last_route, all_failed,
                   fn>>

QualityGate ==
    /\ pc = "quality_check"
    /\ _quality_passed' = Some(quality_passed(Len(documents), Len(subtopics)))
    /\ pc' = "should_retry_search"
    /\ runs' = ran("quality_check")
    /\ failed_calls' = {}
    /\ UNCHANGED <<OPENAI_API_KEY, topic, subtopics, documents, chunks,
                   summaries, final_review, vector_store, _search_results,
                   _retrieved_chunks, _retry_count, last_route, all_failed,
                   fn>>

\* the runner evaluates the conditional edge and follows it
ConditionalEdge ==
    /\ pc = "should_retry_search"
    /\ last_route' = should_retry_search(_quality_passed, _retry_count)
    /\ pc' = conditional_edges(last_route')
    /\ UNCHANGED <<OPENAI_API_KEY, state, runs, all_failed, failed_calls, fn>>

ChunkEmbed ==
    /\ pc = "chunk_embed"
    /\ \E outcome \in EmbedOutcomes :
         /\ chunks' = chunk_and_embed(documents, outcome).chunks
         /\ vector_store' = chunk_and_embed(documents, outcome).vector_store
         /\ all_failed' = (all_failed /\ (documents = <<>> \/ outcome # "ok"))
         /\ failed_calls' = IF documents # <<>> /\ outcome # "ok" THEN {1} ELSE {}
    /\ pc' = edge("chunk_embed")
    /\ runs' = ran("chunk_embed")
    /\ UNCHANGED <<OPENAI_API_KEY, topic, subtopics, documents, summaries,
                   final_review, _search_results, _retrieved_chunks,
                   _quality_passed, _retry_count, last_route, fn>>

Retriever ==
    /\ pc = "retriever"
    /\ \E script \in FailScripts(SearchKinds, "error") :
         /\ _retrieved_chunks' =
               Some(retrieve_context(subtopics, chunks, vector_store, script))
         /\ all_failed' = (all_failed /\ (vector_store = None
                              \/ \A i \in 1..Len(subtopics) :
                                    Answer(script, i) = "error"))
         /\ failed_calls' = { i \in 1..Len(subtopics) :
                                vector_store # None /\ Answer(script, i) = "error" }
    /\ pc' = edge("retriever")
    /\ runs' = ran("retriever")
    /\ UNCHANGED <<OPENAI_API_KEY, topic, subtopics, documents, chunks,
                   summaries, final_review, vector_store, _search_results,
                   _quality_passed, _retry_count, last_route, fn>>

Summarizer ==
    /\ pc = "summarizer"
    /\ \E llm_ready \in BOOLEAN, script \in FailScripts(SummaryKinds, "error") :
         /\ summaries' = summarize_subtopics(subtopics, _retrieved_chunks[1],
                                             llm_ready, script)
         /\ all_failed' = (all_failed /\ (~llm_ready
                              \/ \A i \in 1..Len(subtopics) :
                                    Answer(script, i) = "error"))
         \* call 0 is the initialisation of the LLM client
         /\ failed_calls' = IF ~llm_ready THEN {0}
                            ELSE { i \in 1..Len(subtopics) :
                                     Answer(script, i) = "error" }
    /\ pc' = edge("summarizer")
    /\ runs' = ran("summarizer")
    /\ UNCHANGED <<OPENAI_API_KEY, topic, subtopics, documents, chunks,
                   final_review, vector_store, _search_results,
                   _retrieved_chunks, _quality_passed, _retry_count,
                   last_route, fn>>

Synthesizer ==
    /\ pc = "synthesizer"
    /\ \E llm \in ReviewOutcomes :
         /\ final_review' = synthesize_review(topic, summaries, llm)
         /\ all_failed' = (all_failed /\ llm.kind = "error")
         /\ failed_calls' = IF llm.kind = "error" THEN {1} ELSE {}
    /\ pc' = edge("synthesizer")
    /\ runs' = ran("synthesizer")
    /\ UNCHANGED <<OPENAI_API_KEY, topic, subtopics, documents, chunks,
                   summaries, vector_store, _search_results,
                   _retrieved_chunks, _quality_passed, _retry_count,
                   last_route, fn>>

Next ==
    \/ Main
    \/ Planner
    \/ Searcher
    \/ Fetcher
    \/ QualityGate
    \/ ConditionalEdge
    \/ ChunkEmbed
    \/ Retriever
    \/ Summarizer
    \/ Synthesizer

Spec == Init /\ [][Next]_vars

\* the runner executes the next node or edge whenever there is one
FairSpec == Spec /\ WF_vars(Next)

----------------------------------------------------------------------------
(* The functions of quality_check.py and plan_subtopics on their own:     *)
(* every input within the bounds, whether or not a run can produce it.     *)

\* topics a caller may pass
TestTopics ==
    Topics \cup {"Machine learning in healthcare", "quantum error correction"}

GateInputs ==
    [num_documents : 0..MaxDocs, num_subtopics : 0..MaxSubs,
     quality_passed : BOOLEAN, retry_count : 0..MaxRetry]

InitGate ==
    /\ OPENAI_API_KEY = TRUE
    /\ pc = "test"
    /\ topic \in TestTopics
    /\ subtopics = <<>>
    /\ documents = <<>>
    /\ chunks = <<>>
    /\ summaries = <<>>
    /\ final_review = None
    /\ vector_store = None
    /\ _search_results = None
    /\ _retrieved_chunks = None
    /\ _quality_passed = None
    /\ _retry_count = 0
    /\ runs = [n \in Nodes |-> 0]
    /\ last_route = "none"
    /\ all_failed = TRUE
    /\ failed_calls = {}
    /\ fn_in \in GateInputs
    /\ fn_out = NoResult
    /\ InitCache

CallCheckQuality ==
    /\ pc = "test"
    /\ fn_out.quality_passed = None
    /\ fn_out' = [fn_out EXCEPT !.quality_passed =
                    Some(quality_passed(fn_in.num_documents,
                                        fn_in.num_subtopics))]
    /\ UNCHANGED <<OPENAI_API_KEY, pc, state, hist, fn_in, cache>>

CallShouldRetrySearch ==
    /\ pc = "test"
    /\ fn_out.route = "none"
    /\ fn_out' = [fn_out EXCEPT !.route =
                    should_retry_search(Some(fn_in.quality_passed),
                                        fn_in.retry_count)]
    /\ UNCHANGED <<OPENAI_API_KEY, pc, state, hist, fn_in, cache>>

CallPlanSubtopics ==
    /\ pc = "test"
    /\ subtopics = <<>>
    /\ \E llm \in PlannerOutcomes :
         /\ subtopics' = plan_subtopics(topic, llm)
         /\ failed_calls' = IF llm.kind = "error" THEN {1} ELSE {}
    /\ UNCHANGED <<OPENAI_API_KEY, pc, topic, documents, chunks, summaries,
                   final_review, vector_store, _search_results,
                   _retrieved_chunks, _quality_passed, _retry_count, runs,
                   last_route, all_failed, fn>>

NextGate ==
    \/ CallCheckQuality
    \/ CallShouldRetrySearch
    \/ CallPlanSubtopics

SpecGate == InitGate /\ [][NextGate]_vars

----------------------------------------------------------------------------
(* The stages after the conditional edge on their own: chunk_and_embed is  *)
(* entered with every state the stages before it can have written within   *)
(* the bounds, the empty documents list included, and with the control     *)
(* fields for which should_retry_search returns "continue".                *)

InitStages ==
    /\ OPENAI_API_KEY = TRUE
    /\ pc = "chunk_embed"
    /\ topic \in Topics
    /\ \E llm \in PlannerOutcomes : subtopics = plan_subtopics(topic, llm)
    /\ \E script \in Uniform(DdgsOutcomes) :
         _search_results = Some(search_web(subtopics, script))
    /\ \E script \in Uniform(HttpOutcomes) :
         documents = fetch_pages(_search_results[1], script)
    /\ _quality_passed = Some(quality_passed(Len(documents), Len(subtopics)))
    /\ _retry_count = IF _quality_passed[1] THEN 0 ELSE MAX_RETRIES
    /\ last_route = should_retry_search(_quality_passed, _retry_count)
    /\ chunks = <<>>
    /\ summaries = <<>>
    /\ final_review = None
    /\ vector_store = None
    /\ _retrieved_chunks = None
    /\ runs = [n \in Nodes |->
                 IF n \in {"planner", "searcher", "fetcher", "quality_check"}
                 THEN 1 ELSE 0]
    /\ all_failed = FALSE
    /\ failed_calls = {}
    /\ fn_in = NoTest
    /\ fn_out = NoResult
    /\ InitCache

NextStages ==
    \/ ChunkEmbed
    \/ Retriever
    \/ Summarizer
    \/ Synthesizer

\* the runner executes the next node whenever there is one
SpecStages == InitStages /\ [][NextStages]_vars /\ WF_vars(NextStages)

----------------------------------------------------------------------------
(* The cache functions on their own, called in any order while time passes *)

CacheGet ==
    /\ pc = "cache"
    /\ \E t \in Namespaces, k \in CacheKeys,
          mkdir \in MkdirOutcomes, io \in IoOutcomes :
         cache_out' = get_cached(cache_files, now, t, k, mkdir, io)
    /\ UNCHANGED <<OPENAI_API_KEY, pc, state, hist, fn_in, fn_out,
                   cache_files, now, last_put>>

CachePut ==
    /\ pc = "cache"
    /\ \E t \in Namespaces, k \in CacheKeys,
          mkdir \in MkdirOutcomes, io \in IoOutcomes :
         \E v \in CacheValues(t) :
           /\ cache_files' = put_files(cache_files, now, t, k, v, mkdir, io)
           /\ cache_out' = put_outcome(t, k, v, mkdir, io)
           /\ last_put' = [last_put EXCEPT ![_get_cache_path(t, k)] =
                             IF mkdir = "ok" /\ io = "ok"
                             THEN PutRecord("ok", v, now)
                             ELSE PutRecord("failed", v, now)]
    /\ UNCHANGED <<OPENAI_API_KEY, pc, state, hist, fn_in, fn_out, now>>

CacheClear ==
    /\ pc = "cache"
    /\ \E arg \in ClearArgs :
         /\ cache_files' = clear_cache(cache_files, arg)
         /\ last_put' = [p \in CachePaths |->
                           IF arg = None \/ arg[1] = p[1]
                           THEN NeverPut ELSE last_put[p]]
    /\ cache_out' = NoCall
    /\ UNCHANGED <<OPENAI_API_KEY, pc, state, hist, fn_in, fn_out, now>>

\* twelve hours pass
Tick ==
    /\ pc = "cache"
    /\ now + 12 <= 12 * MaxTicks
    /\ now' = now + 12
    /\ cache_out' = NoCall
    /\ UNCHANGED <<OPENAI_API_KEY, pc, state, hist, fn_in, fn_out,
                   cache_files, last_put>>

InitCacheTest ==
    /\ OPENAI_API_KEY = TRUE
    /\ pc = "cache"
    /\ topic \in Topics
    /\ subtopics = <<>>
    /\ documents = <<>>
    /\ chunks = <<>>
    /\ summaries = <<>>
    /\ final_review = None
    /\ vector_store = None
    /\ _search_results = None
    /\ _retrieved_chunks = None
    /\ _quality_passed = None
    /\ _retry_count = 0
    /\ runs = [n \in Nodes |-> 0]
    /\ last_route = "none"
    /\ all_failed = TRUE
    /\ failed_calls = {}
    /\ fn_in = NoTest
    /\ fn_out = NoResult
    /\ InitCache

NextCache ==
    \/ CacheGet
    \/ CachePut
    \/ CacheClear
    \/ Tick

SpecCache == InitCacheTest /\ [][NextCache]_vars

----------------------------------------------------------------------------
(* Properties *)

Started == pc \notin {"main", "exit", "test"}

\* the subsection headings of a review, in order
RECURSIVE Sections(_)
Sections(text) ==
    IF Len(text) < 2 THEN <<>>
    ELSE IF text[1] = "### " THEN <<text[2]>> \o Sections(Tail(text))
         ELSE Sections(Tail(text))

Contains(text, token) == \E i \in 1..Len(text) : text[i] = token

\* C1: every run that starts the graph eventually reaches END, whatever the
\* external calls answer, also when the quality gate never passes.
C1_ReachesEnd == (pc = "planner") ~> (pc = "END")

\* C2: the conditional edge returns "retry" at most once in a run, so
\* Searcher, Fetcher and Quality Gate each execute at most twice.
C2_AtMostTwice ==
    /\ runs["searcher"] <= 2
    /\ runs["fetcher"] <= 2
    /\ runs["quality_check"] <= 2

\* C3: retry_count is 0 at the start, grows by exactly 1 each time the
\* conditional edge takes the retry branch, and changes at no other step.
C3_RetryCount ==
    /\ (pc = "main" => _retry_count = 0)
    /\ [][IF pc = "should_retry_search" /\ pc' = "searcher"
          THEN _retry_count' = _retry_count + 1
          ELSE _retry_count' = _retry_count]_vars

\* C4: whenever a run is at END, final_review is a string (not None).
C4_FinalReviewAtEnd == pc = "END" => final_review # None

\* a run that ended on the synthesizer's fallback assembly
C4_Witness ==
    /\ pc = "END"
    /\ final_review # None
    /\ final_review # Some(<<"LLM review">>)

\* C5: the routing function returns "retry" iff quality_passed is False and
\* retry_count < 1, and "continue" otherwise; True always gives "continue".
C5_Routing ==
    fn_out.route # "none" =>
      /\ fn_out.route \in {"retry", "continue"}
      /\ fn_out.route = "retry"
           <=> (fn_in.quality_passed = FALSE /\ fn_in.retry_count < 1)
      /\ fn_in.quality_passed = TRUE => fn_out.route = "continue"

\* a failed gate after one retry is routed on
C5_Witness ==
    /\ fn_in.quality_passed = FALSE
    /\ fn_in.retry_count = 1
    /\ fn_out.route = "continue"

\* C6: quality_passed is True exactly when d >= 5 and d / max(s, 1) >= 0.5,
\* that is 2d >= max(s, 1); (0, 3) fails, (5, 3) passes, (5, s >= 11) fails.
C6_QualityGate ==
    LET d == fn_in.num_documents
        s == fn_in.num_subtopics
        m == IF s > 1 THEN s ELSE 1
    IN  fn_out.quality_passed # None =>
          /\ fn_out.quality_passed[1] = (d >= 5 /\ (2 * d) \div m >= 1)
          /\ (d = 0 /\ s = 3 => fn_out.quality_passed[1] = FALSE)
          /\ (d = 5 /\ s = 3 => fn_out.quality_passed[1] = TRUE)
          /\ (d = 5 /\ s >= 11 => fn_out.quality_passed[1] = FALSE)

\* five documents spread too thinly over eleven subtopics
C6_Witness ==
    /\ fn_in.num_documents = 5
    /\ fn_in.num_subtopics = 11
    /\ fn_out.quality_passed = Some(FALSE)

StageOrder ==
    { <<"main", "planner">>, <<"main", "exit">>,
      <<"planner", "searcher">>, <<"searcher", "fetcher">>,
      <<"fetcher", "quality_check">>,
      <<"quality_check", "should_retry_search">>,
      <<"should_retry_search", "searcher">>,
      <<"should_retry_search", "chunk_embed">>,
      <<"chunk_embed", "retriever">>, <<"retriever", "summarizer">>,
      <<"summarizer", "synthesizer">>, <<"synthesizer", "END">> }

\* C7: the stages run in the order Planner, (Searcher, Fetcher, Quality
\* Gate)+, Chunk/Embed, Retriever, Summarizer, Synthesizer, END: Planner is
\* first and runs once, Chunk/Embed only after the gate routed "continue",
\* the last four stages at most once, and only Synthesizer leads to END.
C7_StageOrder ==
    /\ [][pc' # pc => <<pc, pc'>> \in StageOrder]_vars
    /\ [](Started => runs["planner"] = IF pc = "planner" THEN 0 ELSE 1)
    /\ [](\A n \in {"chunk_embed", "retriever", "summarizer", "synthesizer"} :
            runs[n] <= 1)
    /\ [](pc \in {"chunk_embed", "retriever", "summarizer", "synthesizer", "END"}
            => last_route = "continue" /\ runs["quality_check"] >= 1)
    /\ [](pc = "END" => \A n \in Nodes : runs[n] >= 1)

\* a run that went round the retry loop and then to the end
C7_Witness ==
    /\ pc = "END"
    /\ runs["searcher"] = 2
    /\ runs["quality_check"] = 2

\* C8: when every external call fails, the run still reaches END with a
\* final_review that contains the topic and one subsection per fallback
\* subtopic, in the planner's fallback order.
C8_AllFailStillReviews ==
    <>( \/ pc = "exit"
        \/ ~all_failed
        \/ /\ pc = "END"
           /\ final_review # None
           /\ Contains(final_review[1], topic)
           /\ Sections(final_review[1]) =
                <<"Foundational Overview", "Recent Advances",
                  "Challenges and Limitations">> )

\* C9: after Planner has run, subtopics has between 3 and 6 entries, each
\* with a non-empty name and a non-empty search_query.
C9_PlannerOutput ==
    runs["planner"] >= 1 =>
      /\ Len(subtopics) >= 3
      /\ Len(subtopics) <= 6
      /\ \A i \in 1..Len(subtopics) :
           subtopics[i].name # "" /\ subtopics[i].search_query # <<>>

\* C10: after every Searcher execution every stored URL starts with
\* "http://" or "https://" and no subtopic's list has more than 5 URLs.
C10_SearcherOutput ==
    _search_results # None =>
      \A e \in 1..Len(_search_results[1]) :
        LET urls == _search_results[1][e][2]
        IN  /\ Len(urls) <= 5
            /\ \A j \in 1..Len(urls) :
                 \/ startswith(urls[j], <<"http", "://">>)
                 \/ startswith(urls[j], <<"http", "s", "://">>)


RECURSIVE total_urls(_)
total_urls(search_results) ==
    IF search_results = <<>> THEN 0
    ELSE Len(search_results[1][2]) + total_urls(Tail(search_results))

IsPlaceholderDoc(doc) == doc.content.text # <<>>

\* C11: after every Fetcher execution, also on a retry pass, documents has
\* exactly one Document per URL of the Searcher's current mapping, in the
\* same order, whether or not the fetch gave a page; nothing of an earlier
\* pass is kept.
C11_OneDocumentPerUrl ==
    (runs["fetcher"] >= 1 /\ pc # "fetcher") =>
      /\ Len(documents) = total_urls(_search_results[1])
      /\ \A k \in 1..Len(documents) :
           /\ documents[k].subtopic = url_items(_search_results[1])[k][1]
           /\ documents[k].url = url_items(_search_results[1])[k][2]

\* a retry pass that found URLs, one of which gave no page
C11_Witness ==
    /\ runs["fetcher"] = 2
    /\ pc = "quality_check"
    /\ Len(documents) >= 5
    /\ \E k \in 1..Len(documents) : IsPlaceholderDoc(documents[k])
    /\ \E k \in 1..Len(documents) : ~IsPlaceholderDoc(documents[k])


\* C12: after every Fetcher execution the content of every Document, fetched
\* or placeholder, has at most 10,000 characters, whatever the URL's length.
C12_ContentBounded ==
    \A k \in 1..Len(documents) : content_len(documents[k].content) <= 10000


\* C13: when Retriever has run on a Chunk/Embed output without a vector
\* index, the list retrieved for every subtopic holds only Chunks whose
\* metadata.subtopic is that subtopic's name.
C13_NoCrossSubtopic ==
    (_retrieved_chunks # None /\ vector_store = None) =>
      \A e \in 1..Len(_retrieved_chunks[1]) :
        \A c \in 1..Len(_retrieved_chunks[1][e][2]) :
          _retrieved_chunks[1][e][2][c].metadata.subtopic
            = _retrieved_chunks[1][e][1]

C13_Witness ==
    /\ _retrieved_chunks # None
    /\ vector_store = None
    /\ \E a, b \in 1..Len(chunks) :
         chunks[a].metadata.subtopic # chunks[b].metadata.subtopic
    /\ \E e \in 1..Len(_retrieved_chunks[1]) :
         /\ _retrieved_chunks[1][e][2] # <<>>
         /\ Len(_retrieved_chunks[1][e][2]) < Len(chunks)


\* C14: after Summarizer has run, summaries has one Summary per Subtopic in
\* the order of subtopics: the lengths agree and summaries[i].subtopic is
\* subtopics[i].name, for LLM summaries and placeholders alike.
C14_SummaryPerSubtopic ==
    runs["summarizer"] >= 1 =>
      /\ Len(summaries) = Len(subtopics)
      /\ \A i \in 1..Len(summaries) : summaries[i].subtopic = subtopics[i].name


\* the last subtopic of that name: its entry is the one the mapping keeps
LastOfName(i) == \A j \in (i + 1)..Len(subtopics) : subtopics[j].name # subtopics[i].name

\* what the node at pc has written, given the calls that failed in it
FallbackWritten ==
    CASE pc = "planner" -> subtopics' = planner_fallback(topic)
      [] pc = "searcher" ->
           /\ _search_results' # None
           /\ \A i \in failed_calls' :
                subtopics[i].name \in DictKeys(_search_results'[1])
      [] pc = "fetcher" ->
           \A k \in failed_calls' :
             documents'[k] =
               _create_placeholder_doc(url_items(_search_results[1])[k][2],
                                       url_items(_search_results[1])[k][1])
      [] pc = "chunk_embed" ->
           /\ chunks' = fallback_chunks(documents)
           /\ vector_store' = None
      [] pc = "retriever" ->
           /\ _retrieved_chunks' # None
           /\ \A i \in failed_calls' :
                LastOfName(i) =>
                  DictGet(_retrieved_chunks'[1], subtopics[i].name, <<>>)
                    = filter_chunks(chunks, subtopics[i].name)
      [] pc = "summarizer" ->
           /\ Len(summaries') = Len(subtopics)
           /\ \A i \in 1..Len(subtopics) :
                (i \in failed_calls' \/ 0 \in failed_calls') =>
                  summaries'[i] =
                    _create_placeholder_summary(
                        subtopics[i].name,
                        DictGet(_retrieved_chunks[1], subtopics[i].name, <<>>))
      [] pc = "synthesizer" ->
           final_review' = Some(_create_placeholder_review(topic, summaries))
      [] OTHER -> FALSE

C16_NoKeyNoRun ==
    ~OPENAI_API_KEY =>
      /\ pc \in {"main", "exit"}
      /\ \A n \in Nodes : runs[n] = 0
      /\ final_review = None
      /\ subtopics = <<>> /\ documents = <<>> /\ summaries = <<>>
      /\ _search_results = None

C16_Witness == ~OPENAI_API_KEY /\ pc = "exit"


\* C18: when the search for a subtopic has failed, the Searcher has stored
\* exactly the 3 placeholder URLs for that subtopic; the entries of the
\* other subtopics are the ones their own searches produced.
C18_FailedSearchPlaceholders ==
    pc = "fetcher" =>
      \A i \in failed_calls :
        LastOfName(i) =>
          DictGet(_search_results[1], subtopics[i].name, <<>>)
            = searcher_placeholder(subtopics[i].name)


\* C19: when the structured-generation call of the Planner fails, the
\* Planner returns with subtopics set to exactly three Subtopics, named
\* "Foundational Overview", "Recent Advances", "Challenges and Limitations",
\* whose search queries are the topic followed by a fixed suffix.
C19_PlannerFallback ==
    [][(subtopics = <<>> /\ failed_calls' # {}) =>
         /\ Len(subtopics') = 3
         /\ [i \in 1..3 |-> subtopics'[i].name]
              = <<"Foundational Overview", "Recent Advances",
                  "Challenges and Limitations">>
         /\ [i \in 1..3 |-> subtopics'[i].search_query]
              = << <<topic, " overview introduction">>,
                   <<topic, " recent developments 2024">>,
                   <<topic, " challenges limitations">> >>
         /\ pc' = pc]_vars

C19_Witness ==
    /\ pc = "test"
    /\ failed_calls # {}
    /\ topic = "quantum error correction"
    /\ Len(subtopics) = 3


\* C20: no stage writes a field owned by another stage: topic is never
\* written; subtopics is written only by the Planner, which runs once, so
\* the retry pass sees the subtopics of the first pass; each other stage
\* writes only its own field(s).
C20_Frame ==
    [][/\ topic' = topic
       /\ subtopics' # subtopics => (pc = "planner" /\ runs["planner"] = 0)
       /\ pc = "planner" =>
            UNCHANGED <<documents, chunks, summaries, final_review,
                        vector_store, _search_results, _retrieved_chunks,
                        _quality_passed, _retry_count>>
       /\ pc = "searcher" =>
            UNCHANGED <<subtopics, documents, chunks, summaries, final_review,
                        vector_store, _retrieved_chunks, _quality_passed,
                        _retry_count>>
       /\ pc = "fetcher" =>
            UNCHANGED <<subtopics, chunks, summaries, final_review,
                        vector_store, _search_results, _retrieved_chunks,
                        _quality_passed, _retry_count>>
       /\ pc \in {"quality_check", "should_retry_search"} =>
            UNCHANGED <<subtopics, documents, chunks, summaries, final_review,
                        vector_store, _search_results, _retrieved_chunks,
                        _retry_count>>
       /\ pc = "chunk_embed" =>
            UNCHANGED <<subtopics, documents, summaries, final_review,
                        _search_results, _retrieved_chunks, _quality_passed,
                        _retry_count>>
       /\ pc = "retriever" =>
            UNCHANGED <<subtopics, documents, chunks, summaries, final_review,
                        vector_store, _search_results, _quality_passed,
                        _retry_count>>
       /\ pc = "summarizer" =>
            UNCHANGED <<subtopics, documents, chunks, final_review,
                        vector_store, _search_results, _retrieved_chunks,
                        _quality_passed, _retry_count>>
       /\ pc = "synthesizer" =>
            UNCHANGED <<subtopics, documents, chunks, summaries,
                        vector_store, _search_results, _retrieved_chunks,
                        _quality_passed, _retry_count>>]_vars

C20_Witness ==
    /\ runs["searcher"] = 2
    /\ pc = "fetcher"
    /\ subtopics # <<>>
    /\ documents # <<>>
    /\ _quality_passed = Some(FALSE)


\* the position in subtopics of the first Subtopic of that name
subtopic_index(name) ==
    CHOOSE p \in 1..Len(subtopics) :
      /\ subtopics[p].name = name
      /\ \A q \in 1..(p - 1) : subtopics[q].name # name

\* C21: the documents the Fetcher has just stored are ordered by subtopic in the
\* order of subtopics and, within a subtopic, by URL in the order of the
\* Searcher's list for it.
C21_DocumentOrder ==
    pc = "quality_check" =>
      \A i, j \in 1..Len(documents) :
        i < j =>
          LET si == documents[i].subtopic
              sj == documents[j].subtopic
              urls == DictGet(_search_results[1], si, <<>>)
          IN  \/ subtopic_index(si) < subtopic_index(sj)
              \/ /\ si = sj
                 /\ \E p, q \in 1..Len(urls) :
                      p < q /\ urls[p] = documents[i].url
                            /\ urls[q] = documents[j].url

C21_Witness ==
    /\ runs["fetcher"] >= 1
    /\ pc = "quality_check"
    /\ \E i, j \in 1..Len(documents) :
         i < j /\ documents[i].subtopic # documents[j].subtopic
    /\ \E i, j \in 1..Len(documents) :
         /\ i < j
         /\ documents[i].subtopic = documents[j].subtopic
         /\ documents[i].url # documents[j].url


\* C22: after Chunk/Embed, vector_store is present exactly when documents
\* was not empty and splitting and embedding both succeeded; after a failure
\* chunks holds one Chunk per Document, in documents order, whose text is the
\* first 1000 characters of the content and whose metadata is the
\* Document's url, title and subtopic, and vector_store is None.
C22_ChunkEmbedFallback ==
    pc = "retriever" =>
      /\ vector_store # None <=> (documents # <<>> /\ failed_calls = {})
      /\ failed_calls # {} =>
           /\ vector_store = None
           /\ Len(chunks) = Len(documents)
           /\ \A i \in 1..Len(documents) :
                /\ chunks[i].text = [of |-> documents[i].content, window |-> 0]
                /\ chunks[i].metadata = [url |-> documents[i].url,
                                         title |-> documents[i].title,
                                         subtopic |-> documents[i].subtopic]

C22_Witness ==
    /\ pc = "retriever"
    /\ failed_calls # {}
    /\ Len(chunks) >= 5
    /\ \E i \in 1..Len(documents) : content_len(documents[i].content) > 1000


\* C23: Chunk/Embed entered with an empty documents list stores the empty
\* chunks list and no vector store whatever the external services would
\* answer, and returns; the run then goes on through Retriever, Summarizer
\* and Synthesizer to END.
C23_EmptyDocuments ==
    /\ [][(pc = "chunk_embed" /\ documents = <<>>) =>
            /\ chunks' = <<>>
            /\ vector_store' = None
            /\ failed_calls' = {}
            /\ pc' = "retriever"]_vars
    /\ (pc = "chunk_embed" /\ documents = <<>>)
         ~> (pc = "END" /\ final_review # None /\ runs["retriever"] = 1
             /\ runs["summarizer"] = 1 /\ runs["synthesizer"] = 1)

C23_Witness ==
    /\ pc = "END"
    /\ documents = <<>>
    /\ chunks = <<>>
    /\ vector_store = None
    /\ subtopics # <<>>
    /\ Len(summaries) = Len(subtopics)
    /\ final_review # None

\* in a whole run the conditional edge lets no empty documents list through
NoEmptyDocumentsInRun == pc = "chunk_embed" => documents # <<>>


\* C24: with a vector store, the entry of a subtopic whose similarity search
\* failed is the metadata-filtered chunks of its name, and the entry of
\* every subtopic whose search succeeded is its search hits: a failed query
\* changes no other entry.
C24_PerSubtopicFallback ==
    (pc = "summarizer" /\ vector_store # None) =>
      \A i \in 1..Len(subtopics) :
        LastOfName(i) =>
          DictGet(_retrieved_chunks[1], subtopics[i].name, <<>>)
            = IF i \in failed_calls
              THEN filter_chunks(chunks, subtopics[i].name)
              ELSE similarity_search(vector_store[1], 10, "hits")

C24_Witness ==
    /\ pc = "summarizer"
    /\ vector_store # None
    /\ \E i, j \in 1..Len(subtopics) :
         /\ i \in failed_calls
         /\ j \notin failed_calls
         /\ LastOfName(i) /\ LastOfName(j)
         /\ DictGet(_retrieved_chunks[1], subtopics[i].name, <<>>)
              # DictGet(_retrieved_chunks[1], subtopics[j].name, <<>>)

\* C25: after the Retriever the mapping has an entry for every subtopic
\* name and every entry has at most 10 chunks; an entry made by metadata
\* filtering (no vector store, or a failed query) is exactly the first 10
\* chunks, in chunks order, whose metadata.subtopic is the subtopic's name.
C25_RetrievedMapping ==
    pc = "summarizer" =>
      /\ DictKeys(_retrieved_chunks[1])
           = { subtopics[i].name : i \in 1..Len(subtopics) }
      /\ \A e \in 1..Len(_retrieved_chunks[1]) :
           Len(_retrieved_chunks[1][e][2]) <= 10
      /\ \A i \in 1..Len(subtopics) :
           (LastOfName(i) /\ (vector_store = None \/ i \in failed_calls)) =>
             LET OfName(c) == c.metadata.subtopic = subtopics[i].name
                 mine == SelectSeq(chunks, OfName)
             IN  DictGet(_retrieved_chunks[1], subtopics[i].name, <<>>)
                   = SubSeq(mine, 1, Min(10, Len(mine)))

C25_Witness ==
    /\ pc = "summarizer"
    /\ \E i \in 1..Len(subtopics) :
         LET OfName(c) == c.metadata.subtopic = subtopics[i].name
         IN  /\ i \in failed_calls
             /\ Len(SelectSeq(chunks, OfName)) > 10
             /\ Len(DictGet(_retrieved_chunks[1], subtopics[i].name, <<>>)) = 10


\* C26: whenever the routing function is evaluated, quality_passed is the
\* boolean the Quality Gate has just computed from the current documents and
\* subtopics: not the initial None and not the verdict of the pass before.
C26_FreshVerdict ==
    pc = "should_retry_search" =>
      /\ _quality_passed # None
      /\ _quality_passed[1] \in BOOLEAN
      /\ _quality_passed[1] = (/\ Len(documents) >= 5
                               /\ 2 * Len(documents) >= Max(Len(subtopics), 1))
      /\ runs["quality_check"] >= 1
      /\ runs["quality_check"] = runs["fetcher"]

C26_Witness ==
    /\ pc = "should_retry_search"
    /\ runs["quality_check"] = 2
    /\ last_route = "retry"
    /\ _quality_passed = Some(TRUE)

\* C27: once the Searcher has executed, the keys of its mapping are the
\* subtopic names (one entry per Subtopic when the names are distinct); when
\* the Fetcher has executed on that mapping, every Document's subtopic is the
\* name of a Subtopic and its url is in the Searcher's list for that name.
C27_ReferentialIntegrity ==
    /\ (runs["searcher"] >= 1 /\ pc # "searcher") =>
         /\ DictKeys(_search_results[1])
              = { subtopics[i].name : i \in 1..Len(subtopics) }
         /\ (\A i, j \in 1..Len(subtopics) :
               i # j => subtopics[i].name # subtopics[j].name)
              => Len(_search_results[1]) = Len(subtopics)
    /\ pc = "quality_check" =>
         \A k \in 1..Len(documents) :
           /\ \E i \in 1..Len(subtopics) :
                subtopics[i].name = documents[k].subtopic
           /\ \E p \in 1..Len(DictGet(_search_results[1],
                                      documents[k].subtopic, <<>>)) :
                DictGet(_search_results[1], documents[k].subtopic, <<>>)[p]
                  = documents[k].url

C27_Witness ==
    /\ runs["fetcher"] = 2
    /\ pc = "quality_check"
    /\ Len(subtopics) >= 3
    /\ documents # <<>>
    /\ \E e \in 1..Len(_search_results[1]) : _search_results[1][e][2] = <<>>


\* the path the last cache call was about
OutPath == _get_cache_path(cache_out.cache_type, cache_out.key)

\* C28: no cache call raises: a get of a key whose entry is corrupt or
\* unreadable returns the miss value, and a put that fails raises nothing.
C28_NeverFatal ==
    /\ cache_out.kind # "raised"
    /\ (/\ cache_out.op = "get"
        /\ cache_files[OutPath] # None
        /\ (cache_files[OutPath][1].data = "corrupt" \/ cache_out.io # "ok"))
         => cache_out.kind = "miss"

\* C29: a get whose file-system calls succeed returns v when the last put
\* of its key in its namespace stored v less than 24 hours ago with no clear
\* since, and a miss when that put is 24 hours old or older or when nothing
\* was put since the last clear; it never returns a value of the other
\* namespace.
C29_GetAfterPut ==
    (cache_out.op = "get" /\ cache_out.kind # "raised" /\ cache_out.io = "ok") =>
      /\ (last_put[OutPath].state = "ok" /\ now - last_put[OutPath].time < 24)
           => (cache_out.kind = "hit"
               /\ cache_out.value = last_put[OutPath].value)
      /\ (last_put[OutPath].state = "ok" /\ now - last_put[OutPath].time >= 24)
           => cache_out.kind = "miss"
      /\ last_put[OutPath].state = "none" => cache_out.kind = "miss"
      /\ cache_out.kind = "hit"
           => cache_out.value \in CacheValues(cache_out.cache_type)

C29_Witness ==
    /\ cache_out.op = "get"
    /\ cache_out.kind = "miss"
    /\ cache_out.io = "ok"
    /\ cache_out.cache_type = "search"
    /\ last_put[OutPath].state = "ok"
    /\ now - last_put[OutPath].time = 24
    /\ last_put[_get_cache_path("embeddings", cache_out.key)].state = "ok"
    /\ now - last_put[_get_cache_path("embeddings", cache_out.key)].time < 24

====
